---- MODULE Spec2Model ----
(***************************************************************************)
(* Model of electroncash_plugins/hw_wallet/plugin.py:                      *)
(*   - validate_op_return_output_and_get_data (the OP_RETURN validator),   *)
(*   - HW_PluginBase.close_wallet / _cleanup_keystore_extra,               *)
(*   - only_hook_if_libraries_available.                                   *)
(* Three specifications share the variables; each one drives one of the    *)
(* three parts and leaves the other two in their initial state.            *)
(***************************************************************************)
EXTENDS Integers, Sequences, FiniteSets, TLC

VARIABLES
    output,        \* the (typ, address.script, amount) triple handed to the validator
    max_size,      \* validator argument
    max_pushes,    \* validator argument, None for "no limit"
    result,        \* outcome of the validator call: [kind, data]
    vpc,           \* "call" before the validator ran, "done" after
    keystores,     \* wallet.get_keystores(): one record per keystore
    paired,        \* device manager: is keystore k's xpub paired
    stopped,       \* has keystore k's thread been stopped
    unpair_calls,  \* unpair_xpub(keystore k's xpub) calls made by close_wallet
    stop_calls,    \* keystore k's thread.stop() calls made
    cpc,           \* where close_wallet is: "idle", "loop" or "body"
    idx,           \* the keystore the loop of close_wallet is at
    pending,       \* calls of the loop body still to make for that keystore
    closes,        \* close_wallet invocations that returned
    libraries_available,  \* the plugin's flag
    hook_calls,    \* calls of the wrapped hook
    last_arg,      \* argument of the latest call of the wrapped hook
    func_log,      \* arguments the wrapped function was invoked with, in order
    ret            \* what the latest call of the wrapped hook returned

vvars == <<output, max_size, max_pushes, result, vpc>>
cvars == <<keystores, paired, stopped, unpair_calls, stop_calls, cpc, idx, pending, closes>>
hvars == <<libraries_available, hook_calls, last_arg, func_log, ret>>

vars == <<vvars, cvars, hvars>>

----------------------------------------------------------------------------
(* Bounds of the model.                                                    *)

\* longest script, in bytes
MaxLen == 4
\* largest max_size argument tried
MaxSize == 3
\* largest explicit max_pushes argument tried
MaxPushes == 2
\* most keystores in a wallet
MaxKeystores == 2
\* most close_wallet invocations on the wallet
MaxCloses == 2
\* most calls of the wrapped hook
MaxCalls == 4
\* largest argument of the wrapped hook
MaxArg == 3

----------------------------------------------------------------------------
(* Script bytes and opcodes.                                               *)

OP_RETURN == 106
OP_PUSHDATA1 == 76
OP_DUP == 118
TYPE_ADDRESS == 0
TYPE_SCRIPT == 2
\* Python's None, as an argument value that is no push count
None == -1

\* The bytes scripts are made of: the marker, direct pushes of 0, 1 and 2
\* bytes, OP_PUSHDATA1, a non-push opcode, and two payload bytes 'h', 'i'.
Bytes == {0, 1, 2, OP_PUSHDATA1, 104, 105, OP_RETURN, OP_DUP}

RECURSIVE SeqsUpTo(_, _)
SeqsUpTo(S, n) ==
    IF n = 0 THEN {<<>>}
    ELSE LET shorter == SeqsUpTo(S, n - 1)
         IN  shorter \cup {Append(s, b) : s \in {t \in shorter : Len(t) = n - 1}, b \in S}

Scripts == SeqsUpTo(Bytes, MaxLen)

\* script[i:] of Python, i counted from 0
SliceFrom(s, i) == SubSeq(s, i + 1, Len(s))

----------------------------------------------------------------------------
(* Script.get_ops: a flat scan of the script into (opcode, data) pairs.    *)
(* data is None for an opcode that pushes nothing: has_data is FALSE.      *)
(* A push that runs past the end of the script fails the parse.            *)
(* Opcodes below OP_PUSHDATA1 push that many bytes; OP_PUSHDATA1 is        *)
(* followed by a one-byte length.  OP_PUSHDATA2 and OP_PUSHDATA4 are not   *)
(* among Bytes and have no branch here.                                    *)

Op(opcode, has_data, data) == [op |-> opcode, has_data |-> has_data, data |-> data]

RECURSIVE get_ops_scan(_, _, _)
get_ops_scan(script, n, ops) ==
    IF n > Len(script) THEN [ok |-> TRUE, ops |-> ops]
    ELSE LET op == script[n] IN
         IF op < OP_PUSHDATA1
         THEN IF n + op > Len(script)
              THEN [ok |-> FALSE, ops |-> <<>>]
              ELSE get_ops_scan(script, n + 1 + op,
                       Append(ops, Op(op, TRUE, SubSeq(script, n + 1, n + op))))
         ELSE IF op = OP_PUSHDATA1
         THEN IF n + 1 > Len(script) \/ n + 1 + script[n + 1] > Len(script)
              THEN [ok |-> FALSE, ops |-> <<>>]
              ELSE get_ops_scan(script, n + 2 + script[n + 1],
                       Append(ops, Op(op, TRUE,
                           SubSeq(script, n + 2, n + 1 + script[n + 1]))))
         ELSE get_ops_scan(script, n + 1, Append(ops, Op(op, FALSE, <<>>)))

get_ops(script) == get_ops_scan(script, 1, <<>>)

----------------------------------------------------------------------------
(* validate_op_return_output_and_get_data                                  *)

Fail(kind) == [kind |-> kind, data |-> <<>>]
Ok(data) == [kind |-> "ok", data |-> data]

normalize_max_pushes_default(mp, ms) == IF mp = None THEN 1 ELSE mp
\* lines 152-156: None means "no limit" and becomes max_size
normalize_max_pushes(mp, ms) == IF mp = None THEN ms ELSE mp

marker_ok_any_first(ops) == Len(ops) >= 1
\* line 167, negated: there is a first operation and it is OP_RETURN
marker_ok(ops) == Len(ops) >= 1 /\ ops[1].op = OP_RETURN

pushes_ok_count_only(ops, mp) ==
    LET num_pushes == Len(ops) - 1
    IN  num_pushes >= 1 /\ num_pushes <= mp
\* line 170, negated: 1 <= num_pushes <= max_pushes and every operation
\* after the first carries data
pushes_ok(ops, mp) ==
    LET num_pushes == Len(ops) - 1
    IN  /\ num_pushes >= 1
        /\ num_pushes <= mp
        /\ \A i \in 0 .. num_pushes - 1 : ops[i + 2].has_data

get_data_after_marker(script) == SliceFrom(script, 1)
\* line 175: data = address.script[2:]
get_data(script) == SliceFrom(script, 2)

size_ok_off_by_one(data, ms) == Len(data) <= ms + 1
\* line 177, negated
size_ok(data, ms) == Len(data) <= ms

amount_ok_any(amount) == TRUE
\* line 180, negated
amount_ok(amount) == amount = 0

validate_op_return_output_and_get_data(out, ms, mp0) ==
    LET mp == normalize_max_pushes(mp0, ms)
        parsed == get_ops(out.script)
        ops == parsed.ops
        data == get_data(out.script)
    IN  IF ~(mp >= 1) THEN Fail("AssertionError")
        ELSE IF out.type # TYPE_SCRIPT THEN Fail("InvalidOutputKind")
        ELSE IF ~parsed.ok THEN Fail("ScriptError")
        ELSE IF ~marker_ok(ops) THEN Fail("MissingMarker")
        ELSE IF ~pushes_ok(ops, mp) THEN Fail("TooManyOrInvalidPushes")
        ELSE IF ~size_ok(data, ms) THEN Fail("PayloadTooLarge")
        ELSE IF ~amount_ok(out.amount) THEN Fail("NonZeroAmount")
        ELSE Ok(data)

----------------------------------------------------------------------------
(* The validator's specification: any call, then its outcome.              *)

Outputs == [type : {TYPE_SCRIPT, TYPE_ADDRESS}, script : Scripts, amount : {0, 546}]

NoResult == [kind |-> "none", data |-> <<>>]

Validate ==
    /\ vpc = "call"
    /\ result' = validate_op_return_output_and_get_data(output, max_size, max_pushes)
    /\ vpc' = "done"
    /\ UNCHANGED <<output, max_size, max_pushes>>
    /\ UNCHANGED <<cvars, hvars>>

----------------------------------------------------------------------------
(* HW_PluginBase.close_wallet and _cleanup_keystore_extra.                 *)
(* A keystore is an instance of the plugin's keystore_class or not, and    *)
(* its thread attribute is None, an object without a callable stop, or an  *)
(* object with one.  Keystore k's xpub is k.                               *)

ThreadKinds == {"None", "no_stop", "has_stop"}
Keystore == [matches : BOOLEAN, thread : ThreadKinds]
Wallets == SeqsUpTo(Keystore, MaxKeystores)

isinstance_always(ks) == TRUE
\* line 64: isinstance(keystore, self.keystore_class)
isinstance_keystore_class(ks) == ks.matches

close_wallet_body_cleanup_first(ks) ==
    IF isinstance_keystore_class(ks)
    THEN <<"_cleanup_keystore_extra", "unpair_xpub">>
    ELSE <<>>
\* lines 64-66: the calls the loop body makes for one keystore, in order
close_wallet_body(ks) ==
    IF isinstance_keystore_class(ks)
    THEN <<"unpair_xpub", "_cleanup_keystore_extra">>
    ELSE <<>>

has_callable_stop_never(ks) == FALSE
\* line 78: callable(getattr(keystore.thread, 'stop', None))
has_callable_stop(ks) == ks.thread = "has_stop"

\* DeviceMgr.unpair_xpub: the xpub is no longer paired; no-op when it was not
unpair_xpub(p, k) == [p EXCEPT ![k] = FALSE]

\* line 62: the hook is run
close_wallet ==
    /\ cpc = "idle"
    /\ closes < MaxCloses
    /\ cpc' = "loop"
    /\ idx' = 1
    /\ UNCHANGED <<keystores, paired, stopped, unpair_calls, stop_calls, pending, closes>>
    /\ UNCHANGED <<vvars, hvars>>

\* lines 63-64: the next keystore of the wallet, and the type test
next_keystore ==
    /\ cpc = "loop"
    /\ idx <= Len(keystores)
    /\ pending' = close_wallet_body(keystores[idx])
    /\ cpc' = "body"
    /\ UNCHANGED <<keystores, paired, stopped, unpair_calls, stop_calls, idx, closes>>
    /\ UNCHANGED <<vvars, hvars>>

\* line 65: self.device_manager().unpair_xpub(keystore.xpub)
call_unpair_xpub ==
    /\ cpc = "body"
    /\ pending # <<>>
    /\ Head(pending) = "unpair_xpub"
    /\ paired' = unpair_xpub(paired, idx)
    /\ unpair_calls' = [unpair_calls EXCEPT ![idx] = @ + 1]
    /\ pending' = Tail(pending)
    /\ UNCHANGED <<keystores, stopped, stop_calls, cpc, idx, closes>>
    /\ UNCHANGED <<vvars, hvars>>

\* lines 66, 75-79: self._cleanup_keystore_extra(keystore)
call_cleanup_keystore_extra ==
    /\ cpc = "body"
    /\ pending # <<>>
    /\ Head(pending) = "_cleanup_keystore_extra"
    /\ IF has_callable_stop(keystores[idx])
       THEN /\ stopped' = [stopped EXCEPT ![idx] = TRUE]
            /\ stop_calls' = [stop_calls EXCEPT ![idx] = @ + 1]
       ELSE UNCHANGED <<stopped, stop_calls>>
    /\ pending' = Tail(pending)
    /\ UNCHANGED <<keystores, paired, unpair_calls, cpc, idx, closes>>
    /\ UNCHANGED <<vvars, hvars>>

\* line 63: the loop body is over for this keystore
end_iteration ==
    /\ cpc = "body"
    /\ pending = <<>>
    /\ idx' = idx + 1
    /\ cpc' = "loop"
    /\ UNCHANGED <<keystores, paired, stopped, unpair_calls, stop_calls, pending, closes>>
    /\ UNCHANGED <<vvars, hvars>>

\* line 63: no keystore is left, close_wallet returns
close_wallet_return ==
    /\ cpc = "loop"
    /\ idx > Len(keystores)
    /\ cpc' = "idle"
    /\ idx' = 0
    /\ closes' = closes + 1
    /\ UNCHANGED <<keystores, paired, stopped, unpair_calls, stop_calls, pending>>
    /\ UNCHANGED <<vvars, hvars>>

\* The device manager pairs a keystore's xpub again while no close_wallet
\* runs (the wallet is opened and used again).
pair_xpub ==
    /\ cpc = "idle"
    /\ \E k \in 1 .. Len(keystores) :
           /\ ~paired[k]
           /\ paired' = [paired EXCEPT ![k] = TRUE]
    /\ UNCHANGED <<keystores, stopped, unpair_calls, stop_calls, cpc, idx, pending, closes>>
    /\ UNCHANGED <<vvars, hvars>>

CNext ==
    \/ close_wallet
    \/ next_keystore
    \/ call_unpair_xpub
    \/ call_cleanup_keystore_extra
    \/ end_iteration
    \/ close_wallet_return
    \/ pair_xpub

----------------------------------------------------------------------------
(* only_hook_if_libraries_available                                        *)

\* the wrapped operation's result for an argument; it is never None
func(arg) == 2 * arg

wrapper_always(libs, arg) == [invoked |-> TRUE, ret |-> func(arg)]
\* lines 188-190
wrapper(libs, arg) ==
    IF ~libs THEN [invoked |-> FALSE, ret |-> None]
    ELSE [invoked |-> TRUE, ret |-> func(arg)]

\* one call of a hook wrapped by only_hook_if_libraries_available
call_hook ==
    /\ hook_calls < MaxCalls
    /\ \E arg \in 1 .. MaxArg :
           LET r == wrapper(libraries_available, arg)
           IN  /\ last_arg' = arg
               /\ func_log' = IF r.invoked THEN Append(func_log, arg) ELSE func_log
               /\ ret' = r.ret
    /\ hook_calls' = hook_calls + 1
    /\ UNCHANGED libraries_available
    /\ UNCHANGED <<vvars, cvars>>

HNext == call_hook

\* any wallet, each xpub paired or not, every worker running
InitClose ==
    /\ output = [type |-> TYPE_SCRIPT, script |-> <<>>, amount |-> 0]
    /\ max_size = 0
    /\ max_pushes = None
    /\ result = NoResult
    /\ vpc = "call"
    /\ keystores \in Wallets
    /\ paired \in [1 .. Len(keystores) -> BOOLEAN]
    /\ stopped = [k \in 1 .. Len(keystores) |-> FALSE]
    /\ unpair_calls = [k \in 1 .. Len(keystores) |-> 0]
    /\ stop_calls = [k \in 1 .. Len(keystores) |-> 0]
    /\ cpc = "idle"
    /\ idx = 0
    /\ pending = <<>>
    /\ closes = 0
    /\ libraries_available = TRUE
    /\ hook_calls = 0
    /\ last_arg = 0
    /\ func_log = <<>>
    /\ ret = None

SpecClose == InitClose /\ [][CNext]_vars

\* a plugin with its libraries available or not, no call yet
InitHook ==
    /\ output = [type |-> TYPE_SCRIPT, script |-> <<>>, amount |-> 0]
    /\ max_size = 0
    /\ max_pushes = None
    /\ result = NoResult
    /\ vpc = "call"
    /\ keystores = <<>>
    /\ paired = <<>>
    /\ stopped = <<>>
    /\ unpair_calls = <<>>
    /\ stop_calls = <<>>
    /\ cpc = "idle"
    /\ idx = 0
    /\ pending = <<>>
    /\ closes = 0
    /\ libraries_available \in BOOLEAN
    /\ hook_calls = 0
    /\ last_arg = 0
    /\ func_log = <<>>
    /\ ret = None

SpecHook == InitHook /\ [][HNext]_vars

VNext == Validate

\* a validator call with any arguments; no wallet, no hook call
InitValidate ==
    /\ output \in Outputs
    /\ max_size \in 0 .. MaxSize
    /\ max_pushes \in {None} \cup (0 .. MaxPushes)
    /\ result = NoResult
    /\ vpc = "call"
    /\ keystores = <<>>
    /\ paired = <<>>
    /\ stopped = <<>>
    /\ unpair_calls = <<>>
    /\ stop_calls = <<>>
    /\ cpc = "idle"
    /\ idx = 0
    /\ pending = <<>>
    /\ closes = 0
    /\ libraries_available = TRUE
    /\ hook_calls = 0
    /\ last_arg = 0
    /\ func_log = <<>>
    /\ ret = None

SpecValidate == InitValidate /\ [][VNext]_vars

----------------------------------------------------------------------------
(* Properties of the validator.                                            *)

Called == vpc = "done"

\* the push limit in force: max_pushes, or max_size when it is None
EffPushes == IF max_pushes = None THEN max_size ELSE max_pushes

\* the call satisfies the function's assertion max_pushes >= 1
Asserted == EffPushes >= 1

Parsed == get_ops(output.script)

\* the number of operations after the first
NumFollowing == Len(Parsed.ops) - 1

StartsWithMarker ==
    Parsed.ok /\ Len(Parsed.ops) >= 1 /\ Parsed.ops[1].op = OP_RETURN

AllFollowingArePushes == \A i \in 2 .. Len(Parsed.ops) : Parsed.ops[i].has_data

\* OP_RETURN push_1 ... push_k with 1 <= k <= max_pushes
WellFormed ==
    /\ output.type = TYPE_SCRIPT
    /\ Asserted
    /\ StartsWithMarker
    /\ NumFollowing >= 1
    /\ NumFollowing <= EffPushes
    /\ AllFollowingArePushes

\* the encoding of one push: its length prefix, then its payload
PushEncoding(o) ==
    IF o.op = OP_PUSHDATA1 THEN <<OP_PUSHDATA1, Len(o.data)>> \o o.data
    ELSE <<o.op>> \o o.data

RECURSIVE Concat(_, _)
Concat(ops, i) ==
    IF i > Len(ops) THEN <<>> ELSE PushEncoding(ops[i]) \o Concat(ops, i + 1)

\* the concatenated push encodings and payloads of the operations after the marker
PushBytes == Concat(Parsed.ops, 2)

\* the number of script bytes from index 2 on
ExtractedLen == IF Len(output.script) >= 2 THEN Len(output.script) - 2 ELSE 0

\* C1 as stated: a well-formed zero-amount output whose push bytes fit in
\* max_size yields exactly the concatenated push encodings and payloads,
\* every script byte after the OP_RETURN marker.
C1_ReturnsAllPushBytes ==
    (Called /\ WellFormed /\ output.amount = 0 /\ Len(PushBytes) <= max_size)
        => result = Ok(PushBytes)

\* C1 amended: for such an output the validator returns the script from
\* index 2 on, which is the concatenated push encodings and payloads without
\* their first byte (the first push's opcode byte).
C1_ReturnsPushBytesAfterFirst ==
    (Called /\ WellFormed /\ output.amount = 0 /\ Len(PushBytes) <= max_size)
        => /\ result.kind = "ok"
           /\ result.data = Tail(PushBytes)
           /\ <<OP_RETURN, output.script[2]>> \o result.data = output.script

C1_Witness ==
    /\ Called
    /\ output = [type |-> TYPE_SCRIPT, script |-> <<OP_RETURN, 2, 104, 105>>, amount |-> 0]
    /\ max_size = 3
    /\ max_pushes = 1
    /\ result = Ok(<<104, 105>>)

\* C2: an output with a non-zero amount never yields data, and when it is
\* otherwise valid the failure is NonZeroAmount.
C2_NonZeroAmountRejected ==
    (Called /\ output.amount # 0)
        => /\ result.kind # "ok"
           /\ (WellFormed /\ ExtractedLen <= max_size) => result = Fail("NonZeroAmount")

C2_Witness ==
    /\ Called
    /\ output = [type |-> TYPE_SCRIPT, script |-> <<OP_RETURN, 2, 104, 105>>, amount |-> 546]
    /\ max_pushes = 1
    /\ result = Fail("NonZeroAmount")

\* C3: a script output that passes the marker and push checks and whose
\* extracted payload is longer than max_size fails with PayloadTooLarge
\* whatever the amount; returned data is never longer than max_size.
C3_PayloadTooLarge ==
    Called
        => /\ (WellFormed /\ ExtractedLen > max_size) => result = Fail("PayloadTooLarge")
           /\ result.kind = "ok" => Len(result.data) <= max_size

C3_Witness ==
    /\ Called
    /\ WellFormed
    /\ output.amount # 0
    /\ ExtractedLen = max_size + 1
    /\ NumFollowing = 2
    /\ result = Fail("PayloadTooLarge")

\* C4: a script output that starts with OP_RETURN followed by k operations
\* fails with TooManyOrInvalidPushes when k = 0, when k > max_pushes or when
\* one of the k operations is not a data push, whatever the payload size and
\* the amount.
C4_TooManyOrInvalidPushes ==
    (/\ Called
     /\ output.type = TYPE_SCRIPT
     /\ Asserted
     /\ StartsWithMarker
     /\ (NumFollowing = 0 \/ NumFollowing > EffPushes \/ ~AllFollowingArePushes))
        => result = Fail("TooManyOrInvalidPushes")

C4_Witness ==
    /\ Called
    /\ output.type = TYPE_SCRIPT
    /\ StartsWithMarker
    /\ NumFollowing = 1
    /\ EffPushes = 2
    /\ ~AllFollowingArePushes
    /\ ExtractedLen <= max_size
    /\ output.amount = 0
    /\ result = Fail("TooManyOrInvalidPushes")

\* C5: a script output whose script has no first operation or a first
\* operation other than OP_RETURN fails with MissingMarker, whatever follows
\* the first operation, whatever the payload size and the amount.
C5_MissingMarker ==
    (/\ Called
     /\ output.type = TYPE_SCRIPT
     /\ Asserted
     /\ Parsed.ok
     /\ (Len(Parsed.ops) = 0 \/ Parsed.ops[1].op # OP_RETURN))
        => result = Fail("MissingMarker")

C5_Witness ==
    /\ Called
    /\ output.type = TYPE_SCRIPT
    /\ Parsed.ok
    /\ Len(Parsed.ops) = 2
    /\ Parsed.ops[1].op = OP_DUP
    /\ Parsed.ops[2].has_data
    /\ output.amount = 0
    /\ result = Fail("MissingMarker")

\* C9: a call with max_pushes = None has the outcome of the call with
\* max_pushes = max_size on the same output and max_size.
C9_NoneIsMaxSize ==
    (Called /\ max_pushes = None)
        => result = validate_op_return_output_and_get_data(output, max_size, max_size)

C9_Witness ==
    /\ Called
    /\ max_pushes = None
    /\ max_size = 2
    /\ NumFollowing = 2
    /\ result.kind = "ok"

----------------------------------------------------------------------------
(* Properties of close_wallet.                                             *)

Ks == 1 .. Len(keystores)

Matching(k) == keystores[k].matches

Stoppable(k) == keystores[k].thread = "has_stop"

\* close_wallet has gone through every keystore and is about to return
AtReturn == cpc = "loop" /\ idx > Len(keystores)

C7_StopInvokedOnce ==
    (cpc = "idle" /\ closes >= 1)
        => \A k \in Ks : (Matching(k) /\ Stoppable(k)) => stop_calls[k] = 1

\* C7 amended: every close_wallet invocation invokes stop on the worker of
\* each matching keystore, so after n invocations stop has been invoked n
\* times; the worker is stopped from the first invocation on.
C7_StopInvokedAtEveryClose ==
    cpc = "idle"
        => \A k \in Ks :
               (Matching(k) /\ Stoppable(k))
                   => /\ stop_calls[k] = closes
                      /\ stopped[k] <=> closes >= 1

C7_Witness ==
    /\ cpc = "idle"
    /\ closes = 2
    /\ \E k \in Ks : Matching(k) /\ Stoppable(k) /\ stop_calls[k] = 2 /\ stopped[k]

\* what close_wallet may not touch of a keystore that does not match
C8_Untouched(k) ==
    /\ paired'[k] = paired[k]
    /\ stopped'[k] = stopped[k]
    /\ unpair_calls'[k] = unpair_calls[k]
    /\ stop_calls'[k] = stop_calls[k]

\* C8: a keystore that does not match keystore_class is never unpaired and
\* its worker is never stopped, no step of close_wallet changes anything of
\* it (so close_wallet on a wallet without matching keystore changes
\* nothing), and when close_wallet returns every matching keystore has been
\* unpaired and, if its thread has a callable stop, stopped.
C8_OnlyMatchingKeystores ==
    /\ [](\A k \in Ks :
             ~Matching(k) => unpair_calls[k] = 0 /\ stop_calls[k] = 0 /\ ~stopped[k])
    /\ [](AtReturn
             => \A k \in Ks :
                    Matching(k)
                        => /\ ~paired[k]
                           /\ unpair_calls[k] = closes + 1
                           /\ Stoppable(k) => (stopped[k] /\ stop_calls[k] = closes + 1)
                           /\ ~Stoppable(k) => (~stopped[k] /\ stop_calls[k] = 0))
    /\ [][cpc # "idle" => \A k \in Ks : ~Matching(k) => C8_Untouched(k)]_vars

C8_Witness ==
    /\ AtReturn
    /\ \E k \in Ks : Matching(k) /\ Stoppable(k) /\ stopped[k] /\ ~paired[k]
    /\ \E k \in Ks : ~Matching(k) /\ Stoppable(k) /\ ~stopped[k] /\ paired[k]

----------------------------------------------------------------------------
(* Properties of only_hook_if_libraries_available.                         *)

\* C10: with libraries_available false every call of the wrapped hook
\* returns None and the wrapped function is never invoked; with it true
\* every call invokes the wrapped function exactly once, with the call's
\* argument, and returns its result.
C10_OnlyIfLibrariesAvailable ==
    hook_calls > 0
        => IF libraries_available
           THEN /\ Len(func_log) = hook_calls
                /\ func_log[hook_calls] = last_arg
                /\ ret = func(last_arg)
           ELSE /\ func_log = <<>>
                /\ ret = None

C10_Witness ==
    /\ ~libraries_available
    /\ hook_calls = 2
    /\ last_arg = 1
    /\ func_log = <<>>
    /\ ret = None

====
